---- MODULE Spec2Model ----
(***************************************************************************)
(* Model of src/main.py: the card-data scraper.                            *)
(*                                                                         *)
(*   fetch_card_data      the reconciliation run (specification Spec)      *)
(*   text_to_dict         the record extractor   (specification SpecExtract)*)
(*   clean_ability_text   the ability cleaner    (specification SpecClean) *)
(*                                                                         *)
(* A Python str is a sequence of atoms.  An atom is one character, or a    *)
(* fixed literal that the code's patterns match as a whole ("Legends:",    *)
(* "{{LG Attribute Icon|", a key word such as "availability"); an atom is  *)
(* never split, and the character classes below say how an atom begins    *)
(* and ends.                                                               *)
(***************************************************************************)
EXTENDS Integers, Sequences, FiniteSets, TLC

VARIABLES
    output_file,    \* the persisted dataset: the CSV file at output_file
    category,       \* the pages of site.categories[wiki_category]: a set of titles,
                    \* taken not to change while a run is in progress
    pc,             \* position of fetch_card_data: idle, fetching, returned, raised
    todo,           \* pages the comprehension of line 50 has still to visit
    items,          \* the DataFrames the comprehension of line 50 has built so far
    fetched,        \* number of page.text() calls made by this run
    start_file,     \* output_file as it was when this run began
    fresh,          \* the previous run wrote the table and the category is as it was then
    page_name,      \* text_to_dict: argument page_name
    page_contents,  \* text_to_dict: argument page_contents
    record,         \* text_to_dict: the returned dict
    ability_text,   \* clean_ability_text: the argument
    cleaned,        \* clean_ability_text(ability_text)
    recleaned       \* clean_ability_text(cleaned)

reconVars == <<output_file, category, pc, todo, items, fetched, start_file, fresh>>
extractVars == <<page_name, page_contents, record>>
cleanVars == <<ability_text, cleaned, recleaned>>
vars == <<reconVars, extractVars, cleanVars>>

----------------------------------------------------------------------------
(* Bounds *)

MaxLen == 5        \* longest plain ability text of SpecClean
MaxPieces == 4     \* most pieces of a page text of SpecExtract
MaxPages == 2      \* most pages in the category of Spec

----------------------------------------------------------------------------
(* Strings and character classes *)

Max(S) == CHOOSE x \in S : \A y \in S : y <= x
Min(S) == CHOOSE x \in S : \A y \in S : x <= y

RECURSIVE Join(_)
Join(s) == IF s = <<>> THEN "" ELSE Head(s) \o Join(Tail(s))

RECURSIVE SeqsUpTo(_, _)
SeqsUpTo(A, n) ==
    IF n = 0 THEN {<<>>}
    ELSE LET shorter == SeqsUpTo(A, n - 1)
         IN  shorter \cup {Append(s, a) : s \in {t \in shorter : Len(t) = n - 1}, a \in A}

\* atoms whose last character is in [a-z0-9]
EndsLowerOrDigit ==
    {"a", "b", "7", "3", "Expert", "Shackled", "Creature", "Fire", "damage",
     "availability", "ability", "cost", "type", "name", "bogus"}
\* atoms whose first character is in [A-Z]
StartsUpper == {"A", "Expert", "Shackled", "Creature", "Fire"}
\* atoms made of \w characters only
WordAtoms == EndsLowerOrDigit \cup StartsUpper
\* atoms that are \s characters
White == {" ", "\n"}
\* atoms whose last character is one of . , ; :
EndsPunct == {".", ",", ";", ":", "Legends:", "[[Legends:", "[[LG:", "&#32;"}
\* atoms whose last character is |
EndsBar == {"|", "{{LG Attribute Icon|"}
\* atoms that contain }
HasCloseBrace == {"}}", "{{New Left}}", "{{NewLeft}}"}

IsWord(a) == a \in WordAtoms

\* first index >= i of s that is not in class C (Len(s) + 1 when there is none)
SkipWhile(s, i, C) ==
    CHOOSE j \in i..(Len(s) + 1) :
        /\ \A k \in i..(j - 1) : s[k] \in C
        /\ (j = Len(s) + 1 \/ s[j] \notin C)

\* first index >= i of s that is in class C (Len(s) + 1 when there is none)
SkipTo(s, i, C) ==
    CHOOSE j \in i..(Len(s) + 1) :
        /\ \A k \in i..(j - 1) : s[k] \notin C
        /\ (j = Len(s) + 1 \/ s[j] \in C)

From(s, i) == SubSeq(s, i, Len(s))

----------------------------------------------------------------------------
(* clean_ability_text: the ten re.sub calls, in order *)

\* re.sub(r"'''", "", ability_text)
RECURSIVE RemoveTripleQuotes(_)
RemoveTripleQuotes(s) ==
    IF s = <<>> THEN <<>>
    ELSE IF Len(s) >= 3 /\ s[1] = "'" /\ s[2] = "'" /\ s[3] = "'"
         THEN RemoveTripleQuotes(From(s, 4))
         ELSE <<Head(s)>> \o RemoveTripleQuotes(Tail(s))

\* re.sub(r"~", "", ability_text)
RemoveTildes(s) == SelectSeq(s, LAMBDA a : a # "~")

\* re.sub(r"&#32;", "", ability_text)
RemoveEntity32(s) == SelectSeq(s, LAMBDA a : a # "&#32;")

\* re.sub(r"\.\s*\.\s*\.\s*", "", ability_text)
RECURSIVE RemoveEllipsis(_)
RemoveEllipsis(s) ==
    IF s = <<>> THEN <<>>
    ELSE LET d2 == SkipWhile(s, 2, White)
             d3 == SkipWhile(s, d2 + 1, White)
             end == SkipWhile(s, d3 + 1, White)
         IN  IF /\ s[1] = "."
                /\ d2 <= Len(s) /\ s[d2] = "."
                /\ d3 <= Len(s) /\ s[d3] = "."
             THEN RemoveEllipsis(From(s, end))
             ELSE <<Head(s)>> \o RemoveEllipsis(Tail(s))

\* re.sub(r"{{LG Attribute Icon\|([^}]+)}}", r"\1", ability_text)
\* [^}]+ runs up to the first atom that contains }: "}}" closes the template;
\* the "}}" that ends "{{New Left}}" closes it too, and leaves "{{New Left".
RECURSIVE UnwrapAttributeIcon(_)
UnwrapAttributeIcon(s) ==
    IF s = <<>> THEN <<>>
    ELSE LET close == SkipTo(s, 2, HasCloseBrace)
         IN  IF s[1] = "{{LG Attribute Icon|" /\ close <= Len(s)
             THEN IF s[close] = "}}" /\ close > 2
                  THEN SubSeq(s, 2, close - 1) \o UnwrapAttributeIcon(From(s, close + 1))
                  ELSE IF s[close] = "{{New Left}}"
                  THEN SubSeq(s, 2, close - 1) \o <<"{{New Left">>
                           \o UnwrapAttributeIcon(From(s, close + 1))
                  ELSE IF s[close] = "{{NewLeft}}"
                  THEN SubSeq(s, 2, close - 1) \o <<"{{NewLeft">>
                           \o UnwrapAttributeIcon(From(s, close + 1))
                  ELSE <<Head(s)>> \o UnwrapAttributeIcon(Tail(s))
             ELSE <<Head(s)>> \o UnwrapAttributeIcon(Tail(s))

\* re.sub(r"\[\[(?:Legends|LG):[^|]*\|([^]]+)]]", r"\1", ability_text)
RECURSIVE UnwrapLink(_)
UnwrapLink(s) ==
    IF s = <<>> THEN <<>>
    ELSE LET bar == SkipTo(s, 2, EndsBar)
             close == SkipTo(s, bar + 1, {"]]"})
         IN  IF /\ s[1] \in {"[[Legends:", "[[LG:"}
                /\ bar <= Len(s)
                /\ close <= Len(s)
                /\ close > bar + 1
             THEN SubSeq(s, bar + 1, close - 1) \o UnwrapLink(From(s, close + 1))
             ELSE <<Head(s)>> \o UnwrapLink(Tail(s))

\* re.sub(r"(\b\w+)\1", r"\1", ability_text): at the start of a word, the longest
\* prefix that is immediately repeated (\w+ is greedy) is kept once.
RepeatLengths(s, i) ==
    {k \in 1..((Len(s) - i + 1) \div 2) :
        /\ \A j \in i..(i + k - 1) : IsWord(s[j])
        /\ SubSeq(s, i, i + k - 1) = SubSeq(s, i + k, i + 2 * k - 1)}

RECURSIVE CollapseFrom(_, _)
CollapseFrom(s, i) ==
    IF i > Len(s) THEN <<>>
    ELSE IF /\ IsWord(s[i])
            /\ (i = 1 \/ ~IsWord(s[i - 1]))
            /\ RepeatLengths(s, i) # {}
         THEN LET k == Max(RepeatLengths(s, i))
              IN  SubSeq(s, i, i + k - 1) \o CollapseFrom(s, i + 2 * k)
         ELSE <<s[i]>> \o CollapseFrom(s, i + 1)

CollapseRepeatedWord(s) == CollapseFrom(s, 1)

\* re.sub(r"([a-z0-9])([A-Z])", r"\1 \2", ability_text)
SplitCamel(a) ==
    IF a = "{{NewLeft}}" THEN "{{New Left}}"
    ELSE IF a = "{{NewLeft" THEN "{{New Left"
    ELSE a

RECURSIVE SpaceCamelCase(_)
SpaceCamelCase(s) ==
    IF s = <<>> THEN <<>>
    ELSE IF Len(s) >= 2 /\ s[1] \in EndsLowerOrDigit /\ s[2] \in StartsUpper
         THEN <<SplitCamel(s[1]), " ">> \o SpaceCamelCase(Tail(s))
         ELSE <<SplitCamel(s[1])>> \o SpaceCamelCase(Tail(s))

\* line 125 without the lookahead: re.sub(r"([.,;:])", r"\1 ", ability_text)
RECURSIVE SpaceAfterEveryPunctuation(_)
SpaceAfterEveryPunctuation(s) ==
    IF s = <<>> THEN <<>>
    ELSE IF s[1] \in EndsPunct
         THEN <<s[1], " ">> \o SpaceAfterEveryPunctuation(Tail(s))
         ELSE <<s[1]>> \o SpaceAfterEveryPunctuation(Tail(s))

\* re.sub(r"([.,;:])(?=\S)", r"\1 ", ability_text)
RECURSIVE SpaceAfterPunctuation(_)
SpaceAfterPunctuation(s) ==
    IF s = <<>> THEN <<>>
    ELSE IF Len(s) >= 2 /\ s[1] \in EndsPunct /\ s[2] \notin White
         THEN <<s[1], " ">> \o SpaceAfterPunctuation(Tail(s))
         ELSE <<s[1]>> \o SpaceAfterPunctuation(Tail(s))

\* re.sub(r"{{New ?Left}}", " ", ability_text)
RECURSIVE RemoveNewLeft(_)
RemoveNewLeft(s) ==
    IF s = <<>> THEN <<>>
    ELSE IF s[1] \in {"{{New Left}}", "{{NewLeft}}"}
         THEN <<" ">> \o RemoveNewLeft(Tail(s))
         ELSE IF Len(s) >= 2 /\ s[1] \in {"{{New Left", "{{NewLeft"} /\ s[2] = "}}"
         THEN <<" ">> \o RemoveNewLeft(From(s, 3))
         ELSE <<s[1]>> \o RemoveNewLeft(Tail(s))

clean_ability_text(text) ==
    RemoveNewLeft(
     SpaceAfterPunctuation(
      SpaceCamelCase(
       CollapseRepeatedWord(
        UnwrapLink(
         UnwrapAttributeIcon(
          RemoveEllipsis(
           RemoveEntity32(
            RemoveTildes(
             RemoveTripleQuotes(text))))))))))

----------------------------------------------------------------------------
(* text_to_dict *)

\* A Python dict is the sequence of its <<key, value>> items in insertion order.
DictKeys(d) == {d[i][1] : i \in 1..Len(d)}
DictHas(d, key) == key \in DictKeys(d)
DictGet(d, key) == d[CHOOSE i \in 1..Len(d) : d[i][1] = key][2]
\* d[key] = value: an existing key keeps its place
DictSet(d, key, value) ==
    IF DictHas(d, key)
    THEN [i \in 1..Len(d) |-> IF d[i][1] = key THEN <<key, value>> ELSE d[i]]
    ELSE Append(d, <<key, value>>)

\* re.findall(r"\|(\w+)=(.*?)\n", page_contents), scanning from index i:
\* the <<key, value>> groups of the matches, in document order
RECURSIVE FindAll(_, _)
FindAll(s, i) ==
    IF i > Len(s) THEN <<>>
    ELSE LET eq == SkipWhile(s, i + 1, WordAtoms)
             nl == SkipTo(s, eq + 1, {"\n"})
         IN  IF /\ s[i] \in EndsBar
                /\ eq > i + 1
                /\ eq <= Len(s)
                /\ s[eq] = "="
                /\ nl <= Len(s)
             THEN << <<Join(SubSeq(s, i + 1, eq - 1)), SubSeq(s, eq + 1, nl - 1)>> >>
                      \o FindAll(s, nl + 1)
             ELSE FindAll(s, i + 1)

\* re.sub(r"<.*?>", "", value)
RECURSIVE StripTags(_)
StripTags(s) ==
    IF s = <<>> THEN <<>>
    ELSE LET nl == SkipTo(s, 2, {"\n"})
             gt == SkipTo(s, 2, {">"})
         IN  IF s[1] = "<" /\ gt <= Len(s) /\ gt < nl
             THEN StripTags(From(s, gt + 1))
             ELSE <<Head(s)>> \o StripTags(Tail(s))

\* the dict comprehension of lines 66-69: a later match of a key overwrites
RECURSIVE SummaryBlock(_, _)
SummaryBlock(matches, data) ==
    IF matches = <<>> THEN data
    ELSE SummaryBlock(Tail(matches),
                      DictSet(data, Head(matches)[1], StripTags(Head(matches)[2])))

\* page_name.replace("Legends:", "")
StripNamespace(name) == SelectSeq(name, LAMBDA a : a # "Legends:")

\* data.get(key) is truthy
Truthy(data, key) == DictHas(data, key) /\ DictGet(data, key) # <<>>

\* lines 75-76 with "availability" not in data for not data.get("availability")
DefaultAvailabilityWhenAbsent(data) ==
    IF ~DictHas(data, "availability")
    THEN DictSet(data, "availability", <<"Core">>)
    ELSE data

\* lines 75-76
DefaultAvailability(data) ==
    IF ~Truthy(data, "availability")
    THEN DictSet(data, "availability", <<"Core">>)
    ELSE data

\* lines 79-80
CleanAbility(data) ==
    IF Truthy(data, "ability")
    THEN DictSet(data, "ability", clean_ability_text(DictGet(data, "ability")))
    ELSE data

details ==
    <<"name", "availability", "deckcode", "type", "subtype", "attribute", "class",
      "ability", "cost", "rarity", "image">>

keywords ==
    <<"activate", "asilence", "assemble", "banish", "battle", "beast form", "betray",
      "breakthrough", "change", "charge", "consume", "copy", "cover", "drain", "empower",
      "equip", "exalt", "expertise", "guard", "heal", "indestructible", "invade",
      "last gasp", "lethal", "mobilize", "move", "pilfer", "plot", "prophecy", "rally",
      "regenerate", "sacrifice", "shackle", "shout", "silence", "slay", "steal", "summon",
      "transform", "treasure hunt", "uniqueability", "unsummon", "veteran", "ward",
      "wax and wane", "wounded">>

\* line 96 returning data as it is
ProjectNothing(fields, data) == data

\* {key: data[key] for key in details + keywords if key in data}
RECURSIVE Project(_, _)
Project(fields, data) ==
    IF fields = <<>> THEN <<>>
    ELSE IF DictHas(data, Head(fields))
         THEN << <<Head(fields), DictGet(data, Head(fields))>> >>
                  \o Project(Tail(fields), data)
         ELSE Project(Tail(fields), data)

text_to_dict(name, contents) ==
    LET data == SummaryBlock(FindAll(contents, 1), <<>>)
        named == DictSet(data, "name", StripNamespace(name))
    IN  Project(details \o keywords, CleanAbility(DefaultAvailability(named)))

----------------------------------------------------------------------------
(* SpecExtract: text_to_dict applied to a page *)

\* page titles, with and without the namespace prefix
Titles ==
    { <<"Legends:", "Shackled">>, <<"Shackled">>, <<"Legends:">>,
      <<"Legends:", "Legends:", "Shackled">>, <<"7">> }

\* a page text is a concatenation of at most MaxPieces of these
Pieces ==
    { <<"|", "availability", "=">>, <<"|", "cost", "=">>, <<"|", "bogus", "=">>,
      <<"|", "ability", "=">>, <<"|", "name", "=">>,
      <<"Expert", "\n">>, <<"\n">>, <<"<", "b", ">">>, <<"Expert">> }

RECURSIVE Flatten(_)
Flatten(ss) == IF ss = <<>> THEN <<>> ELSE Head(ss) \o Flatten(Tail(ss))

RawTexts == {Flatten(ps) : ps \in SeqsUpTo(Pieces, MaxPieces)}

NotRun == <<"not run">>
NoFile == [kind |-> "absent", header |-> <<>>, rows |-> <<>>]

InitExtract ==
    /\ page_name \in {<<"Legends:", "Shackled">>, <<"Legends:">>}
    /\ page_contents \in RawTexts
    /\ record = NotRun
    /\ output_file = NoFile
    /\ category = {}
    /\ pc = "idle"
    /\ todo = <<>>
    /\ items = <<>>
    /\ fetched = 0
    /\ start_file = NoFile
    /\ fresh = FALSE
    /\ ability_text = <<>>
    /\ cleaned = NotRun
    /\ recleaned = NotRun

Extract ==
    /\ record = NotRun
    /\ record' = text_to_dict(page_name, page_contents)
    /\ UNCHANGED <<page_name, page_contents, reconVars, cleanVars>>

NextExtract == Extract

SpecExtract == InitExtract /\ [][NextExtract]_vars

----------------------------------------------------------------------------
(* fetch_card_data *)

Range(s) == {s[i] : i \in 1..Len(s)}

\* pl.DataFrame(dict) of scalars: one row, the columns in the dict's order.
\* A row maps a column to its cell; a null cell is a column outside the row's domain.
DataFrame(d) ==
    [columns |-> [i \in 1..Len(d) |-> d[i][1]],
     rows |-> << [c \in DictKeys(d) |-> DictGet(d, c)] >>]

\* pl.concat(items, how="diagonal"): the union of the columns, each column at the
\* place of its first appearance; the rows of all frames, nulls where a frame lacks
\* a column
RECURSIVE ConcatDiagonal(_)
ConcatDiagonal(frames) ==
    IF Len(frames) = 1 THEN frames[1]
    ELSE LET front == ConcatDiagonal(SubSeq(frames, 1, Len(frames) - 1))
             last == frames[Len(frames)]
         IN  [columns |-> front.columns
                            \o SelectSeq(last.columns, LAMBDA c : c \notin Range(front.columns)),
              rows |-> front.rows \o last.rows]

\* card_data.write_csv(output_file): a header row, then a line per row; null is
\* written as the empty string
write_csv(df) ==
    [kind |-> "csv",
     header |-> df.columns,
     rows |-> [r \in 1..Len(df.rows) |->
                 [j \in 1..Len(df.columns) |->
                     IF df.columns[j] \in DOMAIN df.rows[r]
                     THEN df.rows[r][df.columns[j]]
                     ELSE <<>>]]]

\* the cells of a column of the file, top to bottom
ColumnCells(file, col) ==
    LET j == CHOOSE k \in 1..Len(file.header) : file.header[k] = col
    IN  [r \in 1..Len(file.rows) |-> file.rows[r][j]]

\* Python values: a str, an int (by its digits), None
PyStr(s) == <<"str", s>>
PyInt(s) == <<"int", s>>
PyNone == <<"None", <<>>>>

Digits == {"7", "3"}
IsIntegerText(s) == s # <<>> /\ \A i \in 1..Len(s) : s[i] \in Digits

\* pl.read_csv infers each column's dtype from its cells: a column whose non-empty
\* cells are all integers is Int64 and its empty cells are null; any other column is
\* String, and missing_utf8_is_empty_string keeps its empty cells as "".
ReadColumn(cells) ==
    IF /\ \E i \in 1..Len(cells) : cells[i] # <<>>
       /\ \A i \in 1..Len(cells) : cells[i] = <<>> \/ IsIntegerText(cells[i])
    THEN [i \in 1..Len(cells) |-> IF cells[i] = <<>> THEN PyNone ELSE PyInt(cells[i])]
    ELSE [i \in 1..Len(cells) |-> PyStr(cells[i])]

\* lines 39-45: set(card_data.get_column("name", default=pl.Series("name", [""])))
card_names(file) ==
    IF file.kind = "csv" /\ "name" \in Range(file.header)
    THEN Range(ReadColumn(ColumnCells(file, "name")))
    ELSE {PyStr(<<>>)}

\* line 46: {page.name for page in site.categories[wiki_category]}
page_names(pages) == {PyStr(title) : title \in pages}

\* the orders in which a listing can yield the pages of the category
Orders(pages) ==
    {order \in [1..Cardinality(pages) -> pages] :
        \A i, j \in 1..Cardinality(pages) : i # j => order[i] # order[j]}

\* what page.text() can return
PageTexts ==
    { <<"|", "cost", "=", "3", "\n">>,
      <<"|", "type", "=", "Creature", "\n", "|", "name", "=", "Expert", "\n">> }

Categories == {pages \in SUBSET Titles : Cardinality(pages) <= MaxPages}

\* a file that is not a dataset of this program: no "name" column
ForeignCsv == [kind |-> "csv", header |-> <<"deckcode">>, rows |-> << << <<"a">> >> >>]
\* a file of zero bytes: pl.read_csv raises
EmptyFile == [kind |-> "empty", header |-> <<>>, rows |-> <<>>]

Init ==
    /\ output_file \in {NoFile, ForeignCsv, EmptyFile}
    /\ category \in Categories
    /\ pc = "idle"
    /\ todo = <<>>
    /\ items = <<>>
    /\ fetched = 0
    /\ start_file = output_file
    /\ fresh = FALSE
    /\ page_name = <<>>
    /\ page_contents = <<>>
    /\ record = NotRun
    /\ ability_text = <<>>
    /\ cleaned = NotRun
    /\ recleaned = NotRun

\* line 40: pl.read_csv raises on a file it cannot parse
ReadFails ==
    /\ pc = "idle"
    /\ output_file.kind = "empty"
    /\ pc' = "raised"
    /\ UNCHANGED <<output_file, category, todo, items, fetched, start_file, fresh>>
    /\ UNCHANGED <<extractVars, cleanVars>>

\* lines 46 and 50: listing the category raises
ListFails ==
    /\ pc = "idle"
    /\ output_file.kind # "empty"
    /\ pc' = "raised"
    /\ UNCHANGED <<output_file, category, todo, items, fetched, start_file, fresh>>
    /\ UNCHANGED <<extractVars, cleanVars>>

\* line 48, card_names == page_names: nothing more is done
Unchanged ==
    /\ pc = "idle"
    /\ output_file.kind # "empty"
    /\ card_names(output_file) = page_names(category)
    /\ pc' = "returned"
    /\ UNCHANGED <<output_file, category, todo, items, fetched, start_file, fresh>>
    /\ UNCHANGED <<extractVars, cleanVars>>

\* line 48, card_names != page_names: line 50 lists the category again
StartFetch ==
    /\ pc = "idle"
    /\ output_file.kind # "empty"
    /\ card_names(output_file) # page_names(category)
    /\ \E order \in Orders(category) : todo' = order
    /\ pc' = "fetching"
    /\ UNCHANGED <<output_file, category, items, fetched, start_file, fresh>>
    /\ UNCHANGED <<extractVars, cleanVars>>

\* line 50, one page: pl.DataFrame(text_to_dict(page.name, page.text()))
FetchPage ==
    /\ pc = "fetching"
    /\ todo # <<>>
    /\ \E text \in PageTexts :
          items' = Append(items, DataFrame(text_to_dict(Head(todo), text)))
    /\ todo' = Tail(todo)
    /\ fetched' = fetched + 1
    /\ UNCHANGED <<output_file, category, pc, start_file, fresh>>
    /\ UNCHANGED <<extractVars, cleanVars>>

\* line 50 with the frames built so far written when page.text() raises
FetchFailsWritesPrefix ==
    /\ pc = "fetching"
    /\ todo # <<>>
    /\ items # <<>>
    /\ output_file' = write_csv(ConcatDiagonal(items))
    /\ pc' = "raised"
    /\ UNCHANGED <<category, todo, items, fetched, start_file, fresh>>
    /\ UNCHANGED <<extractVars, cleanVars>>

\* line 50, one page: page.text() raises and the exception leaves fetch_card_data
FetchFails ==
    /\ pc = "fetching"
    /\ todo # <<>>
    /\ pc' = "raised"
    /\ UNCHANGED <<output_file, category, todo, items, fetched, start_file, fresh>>
    /\ UNCHANGED <<extractVars, cleanVars>>

\* line 49: pl.concat of an empty list raises ValueError
ConcatFails ==
    /\ pc = "fetching"
    /\ todo = <<>>
    /\ items = <<>>
    /\ pc' = "raised"
    /\ UNCHANGED <<output_file, category, todo, items, fetched, start_file, fresh>>
    /\ UNCHANGED <<extractVars, cleanVars>>

\* lines 49-53: the frames are concatenated and written
WriteCsv ==
    /\ pc = "fetching"
    /\ todo = <<>>
    /\ items # <<>>
    /\ output_file' = write_csv(ConcatDiagonal(items))
    /\ pc' = "returned"
    /\ UNCHANGED <<category, todo, items, fetched, start_file, fresh>>
    /\ UNCHANGED <<extractVars, cleanVars>>

\* this run wrote the table
Wrote == pc = "returned" /\ items # <<>>

\* the process ends; the script is run again later, on the category as it then is
NextRun ==
    /\ pc \in {"returned", "raised"}
    /\ category' \in Categories
    /\ fresh' = (Wrote /\ category' = category)
    /\ pc' = "idle"
    /\ todo' = <<>>
    /\ items' = <<>>
    /\ fetched' = 0
    /\ start_file' = output_file
    /\ UNCHANGED output_file
    /\ UNCHANGED <<extractVars, cleanVars>>

Next ==
    \/ ReadFails
    \/ ListFails
    \/ Unchanged
    \/ StartFetch
    \/ FetchPage
    \/ FetchFails
    \/ ConcatFails
    \/ WriteCsv
    \/ NextRun

Spec == Init /\ [][Next]_vars

----------------------------------------------------------------------------
(* SpecClean: clean_ability_text applied once and then again *)

PlainAlphabet == {"a", "A", ".", ",", " ", "'"}

MarkupSamples ==
    { <<"{{LG Attribute Icon|", "Fire", "}}", "~", " ", "damage", ".", ".", ".", " ", " ",
        "Creature", "Creature">>,
      <<"'", "'", "'", "Shackled", "'", "'", "'", "&#32;", "A">>,
      <<"[[Legends:", "Shackled", "|", "Shackled", "]]", ":", "a">>,
      <<"[[LG:", "Shackled", "|", "a", "A", "]]", "{{NewLeft}}", "a">>,
      <<"a", "{{New Left}}", "a", ";", "A">>,
      <<"'", "~", "'", "'", "a">>,
      <<"{{LG Attribute Icon|", "a", "{{New Left}}", "a">> }

AbilityTexts == SeqsUpTo(PlainAlphabet, MaxLen) \cup MarkupSamples

InitClean ==
    /\ ability_text \in AbilityTexts
    /\ cleaned = NotRun
    /\ recleaned = NotRun
    /\ output_file = NoFile
    /\ category = {}
    /\ pc = "idle"
    /\ todo = <<>>
    /\ items = <<>>
    /\ fetched = 0
    /\ start_file = NoFile
    /\ fresh = FALSE
    /\ page_name = <<>>
    /\ page_contents = <<>>
    /\ record = NotRun

CleanOnce ==
    /\ cleaned = NotRun
    /\ cleaned' = clean_ability_text(ability_text)
    /\ UNCHANGED <<ability_text, recleaned, reconVars, extractVars>>

CleanAgain ==
    /\ cleaned # NotRun
    /\ recleaned = NotRun
    /\ recleaned' = clean_ability_text(cleaned)
    /\ UNCHANGED <<ability_text, cleaned, reconVars, extractVars>>

NextClean == CleanOnce \/ CleanAgain

SpecClean == InitClean /\ [][NextClean]_vars

----------------------------------------------------------------------------
(* The claims about fetch_card_data, under Spec *)

\* the set of name values of a persisted table; empty when there is no table
ExistingNames(file) ==
    IF file.kind = "csv" /\ "name" \in Range(file.header)
    THEN Range(ColumnCells(file, "name"))
    ELSE {}

\* C1: when the names of the persisted table equal the current page identifiers,
\* the run fetches no page text, writes nothing and leaves the table as it was.
C1_ShortCircuit ==
    (pc # "idle" /\ ExistingNames(start_file) = category)
        => (fetched = 0 /\ items = <<>> /\ output_file = start_file)

\* C2: when the existing names differ from the current page identifiers, a run that
\* returns has fetched every page and written a table whose names are exactly the
\* current page identifiers.
C2_RebuildNamesArePageIdentifiers ==
    (pc = "returned" /\ ExistingNames(start_file) # category)
        => /\ Wrote
           /\ fetched = Cardinality(category)
           /\ ExistingNames(output_file) = category

\* C3: a run in which listing or a page fetch fails, at any position, ends with the
\* failure and the dataset as it was before the run; a table is written only from
\* all the pages of the category, never from a prefix of them.
C3_AllOrNothingWrite ==
    /\ pc = "raised" => output_file = start_file
    /\ output_file # start_file =>
          /\ pc = "returned"
          /\ fetched = Cardinality(category)
          /\ Len(output_file.rows) = Cardinality(category)

\* C3 witness: a run that rebuilds has fetched a page and then failed on a later one.
C3_Witness ==
    /\ pc = "raised"
    /\ fetched >= 1
    /\ todo # <<>>
    /\ output_file = start_file

\* the existing file is present and has no name column
Malformed(file) == file.kind = "csv" /\ "name" \notin Range(file.header)

\* C4: a run that finds a dataset file without a name column does not return
\* normally, fetches no page and does not overwrite the file.
C4_MalformedFailsFast ==
    (pc # "idle" /\ Malformed(start_file))
        => (pc # "returned" /\ fetched = 0 /\ output_file = start_file)

\* place of a field in details + keywords
FieldIndex(field) ==
    CHOOSE i \in 1..Len(details \o keywords) : (details \o keywords)[i] = field

\* C5: the columns of a written table are in the configured order, details then
\* keywords, whatever the order of the pages and whatever fields each record has.
C5_ColumnsInConfiguredOrder ==
    Wrote => \A i, j \in 1..Len(output_file.header) :
                 i < j => FieldIndex(output_file.header[i]) < FieldIndex(output_file.header[j])

\* C7: every record of the persisted table has a non-empty name.
C7_NamesNonEmpty ==
    \A name \in ExistingNames(output_file) : name # <<>>

\* C10: when the previous run wrote the table and the category is as it was then,
\* this run fetches no page text and writes nothing.
C10_SecondRunShortCircuits ==
    (pc # "idle" /\ fresh) => (fetched = 0 /\ pc # "fetching" /\ ~Wrote)

----------------------------------------------------------------------------
(* The claims about text_to_dict, under SpecExtract *)

\* the lines of a text that end in a newline, without the newline
RECURSIVE TerminatedLines(_)
TerminatedLines(s) ==
    LET nl == SkipTo(s, 1, {"\n"})
    IN  IF nl > Len(s) THEN <<>>
        ELSE <<SubSeq(s, 1, nl - 1)>> \o TerminatedLines(From(s, nl + 1))

\* the places of a line where |key= begins
AttributeStarts(line) ==
    {i \in 1..Len(line) :
        /\ line[i] \in EndsBar
        /\ \E e \in (i + 2)..Len(line) :
              /\ line[e] = "="
              /\ \A k \in (i + 1)..(e - 1) : IsWord(line[k])}

\* the lines of a text that hold an attribute, each as <<key, value>>: the key and
\* the value of the line's first |key=value
AttributeLines(text) ==
    LET lines == SelectSeq(TerminatedLines(text), LAMBDA l : AttributeStarts(l) # {})
    IN  [n \in 1..Len(lines) |->
            LET i == Min(AttributeStarts(lines[n]))
                e == SkipWhile(lines[n], i + 1, WordAtoms)
            IN  <<Join(SubSeq(lines[n], i + 1, e - 1)), From(lines[n], e + 1)>>]

\* the values of the |availability= lines of a text, tags stripped, in order
AvailabilityValues(text) ==
    LET lines == SelectSeq(AttributeLines(text), LAMBDA kv : kv[1] = "availability")
    IN  [n \in 1..Len(lines) |-> StripTags(lines[n][2])]

Last(s) == s[Len(s)]

\* C6: the returned record always has a non-empty availability: "Core" when the text
\* has no |availability= line or the last such line's value is empty once its tags
\* are stripped, and that value otherwise.
C6_AvailabilityDefault ==
    record # NotRun =>
        LET values == AvailabilityValues(page_contents)
        IN  /\ DictHas(record, "availability")
            /\ DictGet(record, "availability") # <<>>
            /\ DictGet(record, "availability") =
                  IF values = <<>> \/ Last(values) = <<>> THEN <<"Core">> ELSE Last(values)

\* C6 witness: two |availability= lines, the first empty and the last one not, and
\* the record extracted.
C6_Witness ==
    /\ record # NotRun
    /\ Len(AvailabilityValues(page_contents)) = 2
    /\ AvailabilityValues(page_contents)[1] = <<>>
    /\ DictGet(record, "availability") = <<"Expert">>

\* C9: the keys of the returned record are exactly the keys of the attribute lines
\* plus name and availability, restricted to the recognized fields; a page with no
\* attribute line yields exactly name and availability.
C9_ProjectionOntoRecognized ==
    record # NotRun =>
        LET extracted == {AttributeLines(page_contents)[n][1] :
                             n \in 1..Len(AttributeLines(page_contents))}
        IN  /\ DictKeys(record) =
                  (extracted \cup {"name", "availability"}) \cap Range(details \o keywords)
            /\ extracted = {} => DictKeys(record) = {"name", "availability"}

\* C9 witness: a page with a recognized and an unrecognized attribute line, extracted.
C9_Witness ==
    /\ record # NotRun
    /\ \E n \in 1..Len(AttributeLines(page_contents)) :
          AttributeLines(page_contents)[n][1] = "bogus"
    /\ DictHas(record, "cost")

----------------------------------------------------------------------------
(* The claim about clean_ability_text, under SpecClean *)

\* a text with a markup artifact: a ''' marker, a tilde, &#32;, a template or a link
HasMarkupArtifact(text) ==
    \/ RemoveTripleQuotes(text) # text
    \/ Range(text) \cap {"~", "&#32;", "{{LG Attribute Icon|", "{{New Left}}", "{{NewLeft}}",
                          "[[Legends:", "[[LG:"} # {}

\* atoms that hold one of the characters ' ~ & { } [ ]
MarkupCharacters ==
    {"'", "~", "&#32;", "{{LG Attribute Icon|", "}}", "{{New Left}}", "{{NewLeft}}",
     "{{New Left", "{{NewLeft", "[[Legends:", "[[LG:", "]]"}

\* C8 as stated: on a text with no markup artifacts, cleaning twice gives what
\* cleaning once gives.
C8_StableOnCleanText ==
    (recleaned # NotRun /\ ~HasMarkupArtifact(ability_text)) => recleaned = cleaned

\* C8 amended: on a text with none of the characters ' ~ & { } [ ], cleaning twice
\* gives what cleaning once gives unless the cleaned text still has a word that
\* begins with an immediately repeated sequence (line 119 still matches it).
C8_StableUnlessRepeatedWord ==
    ( /\ recleaned # NotRun
      /\ Range(ability_text) \cap MarkupCharacters = {}
      /\ CollapseRepeatedWord(cleaned) = cleaned )
        => recleaned = cleaned

\* C8 witness: such a text, which the first cleaning changed by removing an
\* ellipsis and spacing punctuation, cleaned twice.
C8_Witness ==
    /\ recleaned # NotRun
    /\ Range(ability_text) \cap MarkupCharacters = {}
    /\ CollapseRepeatedWord(cleaned) = cleaned
    /\ RemoveEllipsis(ability_text) # ability_text
    /\ \E i \in 1..Len(cleaned) : cleaned[i] = ","
    /\ cleaned[Len(cleaned)] # ","

====
